---- MODULE Spec2Model ----
(***************************************************************************)
(* The Aspect & Pattern Engine of moongate (src/astro_aspects.c with the   *)
(* angle helpers of src/astro_core.c).                                     *)
(*                                                                         *)
(* Angles (longitudes, orbs, differences) are C doubles; they are kept     *)
(* here as exact fixed-point integers counting 1/U of a degree.  Speeds    *)
(* are fixed-point integers counting 0.005 degrees/day, so the 0.01        *)
(* stationarity threshold is STATIONARY_THRESHOLD units.                   *)
(***************************************************************************)
EXTENDS Integers, Sequences, FiniteSets, TLC

VARIABLES
    g_aspect_configs,   \* the process-wide orb table
    call,               \* the API call that has just returned, with its scalar arguments
    rc,                 \* its return value
    positions,          \* the caller's body list handed to the call
    aspects,            \* the caller's aspect buffer
    num_aspects,        \* *num_aspects
    patterns,           \* every pattern record the call stored through patterns[count]
    num_patterns,       \* *num_patterns
    aspect,             \* the AstroAspect out-parameter of calc_aspect: <<>> until written
    fault               \* TRUE once an invalid memory access has killed the process

vars == <<g_aspect_configs, call, rc, positions, aspects, num_aspects,
          patterns, num_patterns, aspect, fault>>

----------------------------------------------------------------------------
(* Fixed-point resolution and program constants *)

U == 2

STATIONARY_THRESHOLD == 2

ASTRO_OK == 0
ASTRO_ERROR_CALCULATION == -4
ASTRO_ERROR_INVALID_PLANET == -5
ASTRO_ERROR_NULL_POINTER == -7

ASTRO_ASPECT_CONJUNCTION == 0
ASTRO_ASPECT_OPPOSITION == 180
ASTRO_ASPECT_TRINE == 120
ASTRO_ASPECT_SQUARE == 90
ASTRO_ASPECT_SEXTILE == 60
ASTRO_ASPECT_QUINCUNX == 150
ASTRO_ASPECT_SEMISEXTILE == 30
ASTRO_ASPECT_SEMISQUARE == 45
ASTRO_ASPECT_SESQUIQUADRATE == 135
ASTRO_ASPECT_QUINTILE == 72
ASTRO_ASPECT_BIQUINTILE == 144

ASTRO_MAX_PLANETS == 23

PATTERN_PLANET_SLOTS == 6

\* AstroPatternType
ASTRO_PATTERN_GRAND_TRINE == "GRAND_TRINE"
ASTRO_PATTERN_T_SQUARE == "T_SQUARE"
ASTRO_PATTERN_STELLIUM == "STELLIUM"

\* A pointer argument is <<>> when NULL and <<object>> otherwise.
NULL == <<>>

Abs(x) == IF x < 0 THEN -x ELSE x

\* C fmod on the fixed-point grid: truncated division, sign of the dividend.
Fmod(x, m) == IF x >= 0 THEN x % m ELSE -((-x) % m)

----------------------------------------------------------------------------
(* src/astro_core.c: angle helpers *)

\* Variant of normalize_angle that keeps the sign fmod gives.
normalize_angle_fmod_only(angle) == Fmod(angle, 360 * U)

astro_core_normalize_angle(angle) ==
    LET a == Fmod(angle, 360 * U)
    IN  IF a < 0 THEN a + 360 * U ELSE a

\* Variant of angular_distance without the fold at 180 degrees.
angular_distance_unfolded(lon1, lon2) == Abs(lon2 - lon1)

astro_core_angular_distance(lon1, lon2) ==
    LET diff == Abs(lon2 - lon1)
    IN  IF diff > 180 * U THEN 360 * U - diff ELSE diff

astro_core_get_sign(longitude) ==
    astro_core_normalize_angle(longitude) \div (30 * U)

----------------------------------------------------------------------------
(* src/astro_aspects.c: the orb table *)

\* Variant of a table entry whose default orb is twice the one written.
AspectConfig_orb_doubled(t, d, x, m) ==
    [aspect_type |-> t, default_orb |-> 2 * d, tight_orb |-> x, is_major |-> m]

AspectConfig(t, d, x, m) ==
    [aspect_type |-> t, default_orb |-> d, tight_orb |-> x, is_major |-> m]

BuiltinConfigs ==
    << AspectConfig(ASTRO_ASPECT_CONJUNCTION,    8 * U, 3 * U, 1),
       AspectConfig(ASTRO_ASPECT_OPPOSITION,     8 * U, 3 * U, 1),
       AspectConfig(ASTRO_ASPECT_TRINE,          8 * U, 3 * U, 1),
       AspectConfig(ASTRO_ASPECT_SQUARE,         8 * U, 3 * U, 1),
       AspectConfig(ASTRO_ASPECT_SEXTILE,        6 * U, 2 * U, 1),
       AspectConfig(ASTRO_ASPECT_QUINCUNX,       3 * U, 1 * U, 0),
       AspectConfig(ASTRO_ASPECT_SEMISEXTILE,    3 * U, 1 * U, 0),
       AspectConfig(ASTRO_ASPECT_SEMISQUARE,     3 * U, 1 * U, 0),
       AspectConfig(ASTRO_ASPECT_SESQUIQUADRATE, 3 * U, 1 * U, 0),
       AspectConfig(ASTRO_ASPECT_QUINTILE,       2 * U, U \div 2, 0),
       AspectConfig(ASTRO_ASPECT_BIQUINTILE,     2 * U, U \div 2, 0) >>

g_num_aspect_configs == Len(BuiltinConfigs)

\* Index (1-based) of the first entry of the table for aspect_type; 0 is NULL.
get_aspect_config(configs, aspect_type) ==
    LET hits == {i \in 1..g_num_aspect_configs : configs[i].aspect_type = aspect_type}
    IN  IF hits = {} THEN 0 ELSE CHOOSE i \in hits : \A k \in hits : i <= k

\* Variant of set_orb that also writes the entries after the one found.
set_orb_from_entry_on(configs, aspect_type, orb) ==
    LET c == get_aspect_config(configs, aspect_type)
    IN  IF c # 0
        THEN [i \in 1..g_num_aspect_configs |->
                 IF i >= c THEN [configs[i] EXCEPT !.default_orb = orb] ELSE configs[i]]
        ELSE configs

astro_aspects_set_orb(configs, aspect_type, orb) ==
    LET c == get_aspect_config(configs, aspect_type)
    IN  IF c # 0 THEN [configs EXCEPT ![c].default_orb = orb] ELSE configs

\* Variant of get_orb that reads the tight orb.
get_orb_reads_tight_orb(configs, aspect_type) ==
    LET c == get_aspect_config(configs, aspect_type)
    IN  IF c # 0 THEN configs[c].tight_orb ELSE 0

astro_aspects_get_orb(configs, aspect_type) ==
    LET c == get_aspect_config(configs, aspect_type)
    IN  IF c # 0 THEN configs[c].default_orb ELSE 0

\* Variant of reset_orbs that leaves the last entry as it is.
reset_orbs_all_but_last(configs) ==
    [i \in 1..g_num_aspect_configs |->
        IF i < g_num_aspect_configs THEN BuiltinConfigs[i] ELSE configs[i]]

astro_aspects_reset_orbs(configs) ==
    [i \in 1..g_num_aspect_configs |-> BuiltinConfigs[i]]

----------------------------------------------------------------------------
(* src/astro_aspects.c: aspect detection *)

\* Variant of check_aspect that reports the angular distance as the orb.
check_aspect_reports_distance(configs, lon1, lon2) ==
    LET angular_dist == astro_core_angular_distance(lon1, lon2)
        diff(i) == Abs(angular_dist - configs[i].aspect_type * U)
        hits == {i \in 1..g_num_aspect_configs : diff(i) <= configs[i].default_orb}
    IN  IF hits = {}
        THEN [found |-> 0]
        ELSE LET i == CHOOSE h \in hits : \A k \in hits : h <= k
             IN  [found |-> 1, aspect_type |-> configs[i].aspect_type,
                  orb |-> angular_dist]

\* Variant of check_aspect that takes the entry nearest to the angular
\* distance among those within orb.
check_aspect_nearest(configs, lon1, lon2) ==
    LET angular_dist == astro_core_angular_distance(lon1, lon2)
        diff(i) == Abs(angular_dist - configs[i].aspect_type * U)
        hits == {i \in 1..g_num_aspect_configs : diff(i) <= configs[i].default_orb}
    IN  IF hits = {}
        THEN [found |-> 0]
        ELSE LET i == CHOOSE h \in hits : \A k \in hits :
                          diff(h) < diff(k) \/ (diff(h) = diff(k) /\ h <= k)
             IN  [found |-> 1, aspect_type |-> configs[i].aspect_type, orb |-> diff(i)]

\* The scan of lines 90-104: the first table entry whose target angle is
\* within its default orb of the angular distance.  found = 0 leaves the
\* out-parameters unwritten.
astro_aspects_check_aspect(configs, lon1, lon2) ==
    LET angular_dist == astro_core_angular_distance(lon1, lon2)
        diff(i) == Abs(angular_dist - configs[i].aspect_type * U)
        hits == {i \in 1..g_num_aspect_configs : diff(i) <= configs[i].default_orb}
    IN  IF hits = {}
        THEN [found |-> 0]
        ELSE LET i == CHOOSE h \in hits : \A k \in hits : h <= k
             IN  [found |-> 1, aspect_type |-> configs[i].aspect_type, orb |-> diff(i)]

\* Variant of is_applying whose stationary test includes the threshold.
is_applying_threshold_inclusive(pos1, pos2, asp) ==
    IF pos1 = NULL \/ pos2 = NULL \/ asp = NULL
    THEN -1
    ELSE LET speed_diff == pos1[1].longitude_speed - pos2[1].longitude_speed
             target_angle == asp[1].aspect_type * U
             current_angle == astro_core_angular_distance(pos1[1].longitude,
                                                          pos2[1].longitude)
         IN  IF Abs(speed_diff) <= STATIONARY_THRESHOLD
             THEN -1
             ELSE IF speed_diff > 0
                  THEN (IF current_angle < target_angle THEN 1 ELSE 0)
                  ELSE (IF current_angle > target_angle THEN 1 ELSE 0)

astro_aspects_is_applying(pos1, pos2, asp) ==
    IF pos1 = NULL \/ pos2 = NULL \/ asp = NULL
    THEN -1
    ELSE LET speed_diff == pos1[1].longitude_speed - pos2[1].longitude_speed
             target_angle == asp[1].aspect_type * U
             current_angle == astro_core_angular_distance(pos1[1].longitude,
                                                          pos2[1].longitude)
         IN  IF Abs(speed_diff) < STATIONARY_THRESHOLD
             THEN -1
             ELSE IF speed_diff > 0
                  THEN (IF current_angle < target_angle THEN 1 ELSE 0)
                  ELSE (IF current_angle > target_angle THEN 1 ELSE 0)

\* Variant of the record whose exactness test excludes the tight orb itself.
AspectRecord_exact_strict(configs, p1, p2, aspect_type, orb) ==
    [planet1 |-> p1.planet,
     planet2 |-> p2.planet,
     aspect_type |-> aspect_type,
     orb |-> astro_core_angular_distance(p1.longitude, p2.longitude),
     difference |-> orb,
     is_applying |-> astro_aspects_is_applying(<<p1>>, <<p2>>,
                         <<[planet1 |-> p1.planet, planet2 |-> p2.planet,
                            aspect_type |-> aspect_type, difference |-> orb]>>),
     is_exact |-> IF orb < configs[get_aspect_config(configs, aspect_type)].tight_orb
                  THEN 1 ELSE 0,
     name |-> <<p1.name, aspect_type, p2.name>>]

\* Lines 126-141: the record written to *aspect once check_aspect has
\* matched aspect_type with difference orb.  is_applying reads the record
\* while its first five fields are set.
AspectRecord(configs, p1, p2, aspect_type, orb) ==
    [planet1 |-> p1.planet,
     planet2 |-> p2.planet,
     aspect_type |-> aspect_type,
     orb |-> astro_core_angular_distance(p1.longitude, p2.longitude),
     difference |-> orb,
     is_applying |-> astro_aspects_is_applying(<<p1>>, <<p2>>,
                         <<[planet1 |-> p1.planet, planet2 |-> p2.planet,
                            aspect_type |-> aspect_type, difference |-> orb]>>),
     is_exact |-> IF orb <= configs[get_aspect_config(configs, aspect_type)].tight_orb
                  THEN 1 ELSE 0,
     name |-> <<p1.name, aspect_type, p2.name>>]

\* Variant of lines 124-146 that reports no match as an invalid planet.
CalcAspectMatched_one_failure_code(configs, p1, p2, chk) ==
    IF chk.found = 1
    THEN [rc |-> ASTRO_OK,
          aspect |-> <<AspectRecord(configs, p1, p2, chk.aspect_type, chk.orb)>>]
    ELSE [rc |-> ASTRO_ERROR_INVALID_PLANET, aspect |-> <<>>]

\* Lines 124-146, chk being the result of check_aspect.
CalcAspectMatched(configs, p1, p2, chk) ==
    IF chk.found = 1
    THEN [rc |-> ASTRO_OK,
          aspect |-> <<AspectRecord(configs, p1, p2, chk.aspect_type, chk.orb)>>]
    ELSE [rc |-> ASTRO_ERROR_CALCULATION, aspect |-> <<>>]

\* Variant of calc_aspect without the same-planet test of lines 116-119.
calc_aspect_without_self_test(configs, pos1, pos2, out) ==
    IF pos1 = NULL \/ pos2 = NULL \/ out = NULL
    THEN [rc |-> ASTRO_ERROR_NULL_POINTER, aspect |-> <<>>]
    ELSE CalcAspectMatched(configs, pos1[1], pos2[1],
             astro_aspects_check_aspect(configs, pos1[1].longitude, pos2[1].longitude))

\* Result of astro_aspects_calc_aspect: the return code and the record left
\* in *aspect (<<>> when the function returns without writing it).
astro_aspects_calc_aspect(configs, pos1, pos2, out) ==
    IF pos1 = NULL \/ pos2 = NULL \/ out = NULL
    THEN [rc |-> ASTRO_ERROR_NULL_POINTER, aspect |-> <<>>]
    ELSE IF pos1[1].planet = pos2[1].planet
    THEN [rc |-> ASTRO_ERROR_INVALID_PLANET, aspect |-> <<>>]
    ELSE CalcAspectMatched(configs, pos1[1], pos2[1],
             astro_aspects_check_aspect(configs, pos1[1].longitude, pos2[1].longitude))

\* Doubles that need not be on the fixed-point grid: a quotient num / den
\* with den > 0, or the IEEE values NaN and +infinity.
Quot(num, den) == [kind |-> "quot", num |-> num, den |-> den]
NaN == [kind |-> "nan"]
PlusInf == [kind |-> "inf"]

\* Lines 431-432: 1.0 - difference / default_orb, then 0.0 if that is
\* negative.  A zero orb divides by zero: the quotient is +infinity,
\* -infinity or (0 / 0) NaN, and NaN < 0.0 is false.
Strength(difference, default_orb) ==
    IF default_orb > 0
    THEN (IF default_orb - difference < 0 THEN Quot(0, 1)
          ELSE Quot(default_orb - difference, default_orb))
    ELSE IF default_orb < 0
    THEN (IF difference - default_orb < 0 THEN Quot(0, 1)
          ELSE Quot(difference - default_orb, -default_orb))
    ELSE IF difference = 0 THEN NaN
    ELSE IF difference > 0 THEN Quot(0, 1)
    ELSE PlusInf

StrengthUnder(configs, c, asp) ==
    IF c = 0 THEN Quot(0, 1) ELSE Strength(asp.difference, configs[c].default_orb)

astro_aspects_get_strength(configs, asp_ptr) ==
    IF asp_ptr = NULL
    THEN Quot(0, 1)
    ELSE StrengthUnder(configs, get_aspect_config(configs, asp_ptr[1].aspect_type),
                       asp_ptr[1])

\* A body record as the ephemeris collaborator fills it in
\* (src/astro_core.c:181 derives the sign from the longitude).
BodyPosition(planet, longitude, speed) ==
    [planet |-> planet, longitude |-> longitude, longitude_speed |-> speed,
     sign |-> astro_core_get_sign(longitude), name |-> planet]

----------------------------------------------------------------------------
(* src/astro_aspects.c: the aspect set builders.  Sequences are 1-based:   *)
(* the C element positions[i] is positions[i + 1] here.                    *)

\* aspects[count++] = aspect when calc_aspect returned ASTRO_OK (lines 164-166).
StoreIfOk(buf, r) == IF r.rc = ASTRO_OK THEN buf \o r.aspect ELSE buf

\* Variant of the inner loop of calc_all without the capacity test.
RECURSIVE calc_all_j_unbounded(_, _, _, _, _, _)
calc_all_j_unbounded(configs, pos, max_aspects, i, j, buf) ==
    IF j < Len(pos)
    THEN calc_all_j_unbounded(configs, pos, max_aspects, i, j + 1,
             StoreIfOk(buf, astro_aspects_calc_aspect(configs, <<pos[i + 1]>>,
                                                      <<pos[j + 1]>>, <<"aspect">>)))
    ELSE buf

\* The inner loop of calc_all (lines 162-167), from j with count = Len(buf).
RECURSIVE calc_all_j(_, _, _, _, _, _)
calc_all_j(configs, pos, max_aspects, i, j, buf) ==
    IF j < Len(pos) /\ Len(buf) < max_aspects
    THEN calc_all_j(configs, pos, max_aspects, i, j + 1,
             StoreIfOk(buf, astro_aspects_calc_aspect(configs, <<pos[i + 1]>>,
                                                      <<pos[j + 1]>>, <<"aspect">>)))
    ELSE buf

\* Variant of one pair evaluation that judges the pair under the built-in
\* orbs whatever the table holds.
calc_all_pair_builtin_orbs(configs, pos, i, j, buf) ==
    StoreIfOk(buf, astro_aspects_calc_aspect(BuiltinConfigs, <<pos[i + 1]>>,
                                             <<pos[j + 1]>>, <<"aspect">>))

\* One pair evaluation of calc_all (lines 163-166): positions[i] against
\* positions[j] under the table as it is at that moment.
calc_all_pair(configs, pos, i, j, buf) ==
    StoreIfOk(buf, astro_aspects_calc_aspect(configs, <<pos[i + 1]>>,
                                             <<pos[j + 1]>>, <<"aspect">>))

\* The loop counters after the pair (i, j) of a list of n bodies: j++, and
\* at the end of the inner loop i++ and j = i + 1 (lines 161-162).
NextPair(i, j, n) ==
    IF j + 1 < n THEN [i |-> i, j |-> j + 1] ELSE [i |-> i + 1, j |-> i + 2]

\* Variant of the outer loop of calc_all whose inner loop starts at j = 0.
RECURSIVE calc_all_i_all_pairs(_, _, _, _, _)
calc_all_i_all_pairs(configs, pos, max_aspects, i, buf) ==
    IF i < Len(pos) /\ Len(buf) < max_aspects
    THEN calc_all_i_all_pairs(configs, pos, max_aspects, i + 1,
                              calc_all_j(configs, pos, max_aspects, i, 0, buf))
    ELSE buf

\* The outer loop of calc_all (lines 161-168), from i with count = Len(buf).
RECURSIVE calc_all_i(_, _, _, _, _)
calc_all_i(configs, pos, max_aspects, i, buf) ==
    IF i < Len(pos) /\ Len(buf) < max_aspects
    THEN calc_all_i(configs, pos, max_aspects, i + 1,
                    calc_all_j(configs, pos, max_aspects, i, i + 1, buf))
    ELSE buf

\* *num_aspects = count; return ASTRO_OK (lines 170-171, 199-200).
Stored(buf) == [rc |-> ASTRO_OK, aspects |-> buf, num_aspects |-> <<Len(buf)>>]

\* pos_ptr, out_ptr, num_ptr: NULL or not; pos: the num_planets records.
astro_aspects_calc_all(configs, pos_ptr, pos, out_ptr, max_aspects, num_ptr) ==
    IF pos_ptr = NULL \/ out_ptr = NULL \/ num_ptr = NULL
    THEN [rc |-> ASTRO_ERROR_NULL_POINTER, aspects |-> <<>>, num_aspects |-> <<>>]
    ELSE Stored(calc_all_i(configs, pos, max_aspects, 0, <<>>))

RECURSIVE calc_between_j(_, _, _, _, _, _, _)
calc_between_j(configs, natal, transit, max_aspects, i, j, buf) ==
    IF j < Len(natal) /\ Len(buf) < max_aspects
    THEN calc_between_j(configs, natal, transit, max_aspects, i, j + 1,
             StoreIfOk(buf, astro_aspects_calc_aspect(configs, <<transit[i + 1]>>,
                                                      <<natal[j + 1]>>, <<"aspect">>)))
    ELSE buf

RECURSIVE calc_between_i(_, _, _, _, _, _)
calc_between_i(configs, natal, transit, max_aspects, i, buf) ==
    IF i < Len(transit) /\ Len(buf) < max_aspects
    THEN calc_between_i(configs, natal, transit, max_aspects, i + 1,
                        calc_between_j(configs, natal, transit, max_aspects, i, 0, buf))
    ELSE buf

astro_aspects_calc_between_charts(configs, natal_ptr, natal, transit_ptr, transit, out_ptr, max_aspects, num_ptr) ==
    IF natal_ptr = NULL \/ transit_ptr = NULL \/ out_ptr = NULL \/ num_ptr = NULL
    THEN [rc |-> ASTRO_ERROR_NULL_POINTER, aspects |-> <<>>, num_aspects |-> <<>>]
    ELSE Stored(calc_between_i(configs, natal, transit, max_aspects, 0, <<>>))

----------------------------------------------------------------------------
(* src/astro_aspects.c: pattern detection (lines 234-359).                 *)
(* pats is the sequence of records stored through patterns[count], in      *)
(* order, so count = Len(pats); a record stored at an index >= max_patterns*)
(* lies beyond the caller's buffer.                                        *)

\* positions[p].name for a planet identifier p used as an array index
\* (lines 281-283, 320-322); junk is what the memory past the list holds.
NameAt(pos, p, junk) ==
    IF p < Len(pos) THEN pos[p + 1].name ELSE junk

IsTrine(a) == a.aspect_type = ASTRO_ASPECT_TRINE
IsSquare(a) == a.aspect_type = ASTRO_ASPECT_SQUARE
IsOpposition(a) == a.aspect_type = ASTRO_ASPECT_OPPOSITION

\* Lines 258-263.  AstroPlanet third_planet = -1 stays -1 when aspects[j]
\* shares no body with aspects[i]; bodies are never negative, so the scan
\* for the third side finds nothing then, whether or not the enum is signed.
ThirdPlanet(p1, p2, p3a, p3b) ==
    IF p3a = p1 \/ p3a = p2 THEN p3b
    ELSE IF p3b = p1 \/ p3b = p2 THEN p3a
    ELSE -1

\* Variant of the scan for the third side that accepts only a Trine
\* recorded from p1 to the third planet.
ThirdSideFound_from_p1_only(asps, p1, p2, third_planet) ==
    \E k \in 1..Len(asps) :
        /\ asps[k].aspect_type = ASTRO_ASPECT_TRINE
        /\ asps[k].planet1 = p1 /\ asps[k].planet2 = third_planet

\* Lines 267-272: some aspects[k] closes the triangle.
ThirdSideFound(asps, p1, p2, third_planet) ==
    \E k \in 1..Len(asps) :
        /\ IsTrine(asps[k])
        /\ \/ (asps[k].planet1 = p1 /\ asps[k].planet2 = third_planet)
           \/ (asps[k].planet2 = p1 /\ asps[k].planet1 = third_planet)
           \/ (asps[k].planet1 = p2 /\ asps[k].planet2 = third_planet)
           \/ (asps[k].planet2 = p2 /\ asps[k].planet1 = third_planet)

GrandTrineRecord(pos, p1, p2, third_planet, junk) ==
    [pattern_type |-> ASTRO_PATTERN_GRAND_TRINE,
     planets |-> <<p1, p2, third_planet>>,
     num_planets |-> 3,
     description |-> <<"Grand Trine", NameAt(pos, p1, junk), NameAt(pos, p2, junk),
                       NameAt(pos, third_planet, junk)>>]

\* Lines 251-288 for one aspects[j]: j_is_trine is the test of line 251.
GrandTrineStep(pos, asps, junk, pats, p1, p2, j_is_trine, third_planet) ==
    IF j_is_trine /\ third_planet >= 0 /\ ThirdSideFound(asps, p1, p2, third_planet)
    THEN Append(pats, GrandTrineRecord(pos, p1, p2, third_planet, junk))
    ELSE pats

RECURSIVE grand_trine_j(_, _, _, _, _, _)
grand_trine_j(pos, asps, junk, i, j, pats) ==
    IF j < Len(asps)
    THEN grand_trine_j(pos, asps, junk, i, j + 1,
             GrandTrineStep(pos, asps, junk, pats, asps[i + 1].planet1,
                 asps[i + 1].planet2, IsTrine(asps[j + 1]),
                 ThirdPlanet(asps[i + 1].planet1, asps[i + 1].planet2,
                             asps[j + 1].planet1, asps[j + 1].planet2)))
    ELSE pats

RECURSIVE grand_trine_i(_, _, _, _, _, _)
grand_trine_i(pos, asps, junk, max_patterns, i, pats) ==
    IF i < Len(asps) /\ Len(pats) < max_patterns
    THEN grand_trine_i(pos, asps, junk, max_patterns, i + 1,
             IF IsTrine(asps[i + 1])
             THEN grand_trine_j(pos, asps, junk, i, i + 1, pats)
             ELSE pats)
    ELSE pats

\* Lines 308-311: some aspects[k] is a Square between sq2 and p1 or p2.
SecondSquareFound(asps, p1, p2, sq2) ==
    \E k \in 1..Len(asps) :
        /\ IsSquare(asps[k])
        /\ \/ (asps[k].planet1 = sq2 /\ (asps[k].planet2 = p1 \/ asps[k].planet2 = p2))
           \/ (asps[k].planet2 = sq2 /\ (asps[k].planet1 = p1 \/ asps[k].planet1 = p2))

TSquareRecord(pos, p1, p2, sq2, junk) ==
    [pattern_type |-> ASTRO_PATTERN_T_SQUARE,
     planets |-> <<p1, p2, sq2>>,
     num_planets |-> 3,
     description |-> <<"T-Square", NameAt(pos, p1, junk), NameAt(pos, p2, junk),
                       NameAt(pos, sq2, junk)>>]

\* Lines 302-327 for one aspects[j]: j_is_square is the test of line 302.
TSquareStep(pos, asps, junk, pats, p1, p2, j_is_square, sq1, sq2) ==
    IF /\ j_is_square
       /\ (sq1 = p1 \/ sq1 = p2) /\ sq2 # p1 /\ sq2 # p2
       /\ SecondSquareFound(asps, p1, p2, sq2)
    THEN Append(pats, TSquareRecord(pos, p1, p2, sq2, junk))
    ELSE pats

RECURSIVE t_square_j(_, _, _, _, _, _)
t_square_j(pos, asps, junk, i, j, pats) ==
    IF j < Len(asps)
    THEN t_square_j(pos, asps, junk, i, j + 1,
             TSquareStep(pos, asps, junk, pats, asps[i + 1].planet1,
                 asps[i + 1].planet2, IsSquare(asps[j + 1]),
                 asps[j + 1].planet1, asps[j + 1].planet2))
    ELSE pats

RECURSIVE t_square_i(_, _, _, _, _, _)
t_square_i(pos, asps, junk, max_patterns, i, pats) ==
    IF i < Len(asps) /\ Len(pats) < max_patterns
    THEN t_square_i(pos, asps, junk, max_patterns, i + 1,
             IF IsOpposition(asps[i + 1])
             THEN t_square_j(pos, asps, junk, i, 0, pats)
             ELSE pats)
    ELSE pats

\* Lines 335-342: the indices (0-based) of the bodies in the sign, at most
\* ASTRO_MAX_PLANETS of them.
RECURSIVE planets_in_sign(_, _, _, _)
planets_in_sign(pos, sign, i, found) ==
    IF i < Len(pos) /\ Len(found) < ASTRO_MAX_PLANETS
    THEN planets_in_sign(pos, sign, i + 1,
             IF pos[i + 1].sign = sign THEN Append(found, i) ELSE found)
    ELSE found

\* Lines 345-352.  planets lists every value stored through planets[i]; a
\* list longer than PATTERN_PLANET_SLOTS ran past the planets array.
StelliumRecord(pos, sign, in_sign) ==
    [pattern_type |-> ASTRO_PATTERN_STELLIUM,
     planets |-> [i \in 1..Len(in_sign) |-> pos[in_sign[i] + 1].planet],
     num_planets |-> Len(in_sign),
     description |-> <<"Stellium", sign, Len(in_sign)>>]

\* Lines 344-354 for one sign.
StelliumStep(pos, sign, pats, in_sign) ==
    IF Len(in_sign) >= 3
    THEN Append(pats, StelliumRecord(pos, sign, in_sign))
    ELSE pats

RECURSIVE stellium_sign(_, _, _, _)
stellium_sign(pos, max_patterns, sign, pats) ==
    IF sign < 12 /\ Len(pats) < max_patterns
    THEN stellium_sign(pos, max_patterns, sign + 1,
             StelliumStep(pos, sign, pats, planets_in_sign(pos, sign, 0, <<>>)))
    ELSE pats

\* The records stored by one call, all pointers non-NULL.
find_patterns_stores(pos, asps, max_patterns, junk) ==
    stellium_sign(pos, max_patterns, 0,
        t_square_i(pos, asps, junk, max_patterns, 0,
            grand_trine_i(pos, asps, junk, max_patterns, 0, <<>>)))

\* *num_patterns = count; return ASTRO_OK (lines 357-358).
StoredPatterns(pats) ==
    [rc |-> ASTRO_OK, patterns |-> pats, num_patterns |-> <<Len(pats)>>]

astro_aspects_find_patterns(pos_ptr, pos, asps_ptr, asps, out_ptr, max_patterns, num_ptr, junk) ==
    IF pos_ptr = NULL \/ asps_ptr = NULL \/ out_ptr = NULL \/ num_ptr = NULL
    THEN [rc |-> ASTRO_ERROR_NULL_POINTER, patterns |-> <<>>, num_patterns |-> <<>>]
    ELSE StoredPatterns(find_patterns_stores(pos, asps, max_patterns, junk))

\* The call touched memory outside the objects it was given: a record stored
\* at patterns[k], k >= max_patterns, a planet stored past planets[5], or a
\* name read from positions[p], p >= num_planets.
OutOfBounds(pos, pats, max_patterns) ==
    \/ Len(pats) > max_patterns
    \/ \E k \in 1..Len(pats) :
          \/ Len(pats[k].planets) > PATTERN_PLANET_SLOTS
          \/ /\ pats[k].pattern_type # ASTRO_PATTERN_STELLIUM
             /\ \E m \in 1..3 : pats[k].planets[m] >= Len(pos)

\* Some record had a planet stored past planets[5].
Overfull(pats) ==
    \E k \in 1..Len(pats) : Len(pats[k].planets) > PATTERN_PLANET_SLOTS

\* In AstroPattern num_planets follows planets[6] (src/astro_aspects.h:153-154)
\* and is assigned before the planets are stored (lines 346-349), so the
\* store through planets[6] lands on num_planets.
Clobbered(pats) ==
    [k \in 1..Len(pats) |->
        IF Len(pats[k].planets) > PATTERN_PLANET_SLOTS
        THEN [pats[k] EXCEPT !.num_planets = pats[k].planets[PATTERN_PLANET_SLOTS + 1]]
        ELSE pats[k]]

----------------------------------------------------------------------------
(* Bounds and input sets *)

MaxPlanets == 3
MaxAspects == 3

\* Capacities of the caller's pattern buffer.
PatternCaps == {0, 1, 2, 4}

Deg(S) == {d * U : d \in S}

\* Orb changes tried on single aspects: a negative orb, 0, and 10 degrees.
OrbTypes == {ASTRO_ASPECT_TRINE, ASTRO_ASPECT_SEXTILE, ASTRO_ASPECT_QUINTILE, 99}
OrbValues == Deg({-1, 0, 10})

\* Orb changes tried on the table alone: every family of the table and an
\* identifier outside it, set to 5 degrees.
AnyOrbTypes == {BuiltinConfigs[i].aspect_type : i \in 1..g_num_aspect_configs} \cup {99}
AnyOrbValues == Deg({5})

\* Orb changes tried on whole charts.
ChartOrbTypes == {ASTRO_ASPECT_SQUARE}
ChartOrbValues == Deg({2})

\* Single-aspect inputs: the first body at 0 or 350 degrees, the second on
\* every whole degree of the half circle, on the half degrees around the
\* Quintile and on some longitudes across the 0/360 wrap.
Lon1Set == Deg({0})
Lon2Set == Deg(0..180) \cup {143, 145, 147} \cup Deg({188, 240, 270, 352, 359})
Speed1Set == {0, 3}
Speed2Set == {0, 1, 2, 5}
Planet1Set == {0}
Planet2Set == {0, 1}

Bodies1 == {BodyPosition(p, l, v) : p \in Planet1Set, l \in Lon1Set, v \in Speed1Set}
Bodies2 == {BodyPosition(p, l, v) : p \in Planet2Set, l \in Lon2Set, v \in Speed2Set}

\* Argument triples of calc_aspect: every pair of records with a buffer, and
\* every way of passing a NULL.
CalcAspectArgs ==
    {<<(<<a>>), (<<b>>), (<<"aspect">>)>> : a \in Bodies1, b \in Bodies2}
    \cup {<<p, q, o>> : p \in {NULL, <<BodyPosition(0, 0, 0)>>},
                        q \in {NULL, <<BodyPosition(1, 120 * U, 0)>>},
                        o \in {NULL, <<"aspect">>}}

\* Chart inputs.  A list holds up to MaxPlanets bodies at the longitudes of
\* ChartLons; its identifiers follow one of three schemes: the list index
\* (Sun, Moon, Mercury, ...), a sparse selection (5, 7, 9, ...) or two
\* charts' bodies side by side (0, 0, 1, 1, ...).
ChartLons == Deg({0, 82, 120, 180, 188, 240})
IdSchemes == {"index", "sparse", "paired"}

PlanetOf(scheme, i) ==
    CASE scheme = "index"  -> i - 1
      [] scheme = "sparse" -> 2 * i + 3
      [] scheme = "paired" -> (i - 1) \div 2

ChartSpeed(i) == 3 * ((i % 3) - 1)

BodyLists ==
    UNION { { [i \in 1..n |-> BodyPosition(PlanetOf(sch, i), lons[i], ChartSpeed(i))]
              : lons \in [1..n -> ChartLons] }
            : n \in 0..MaxPlanets, sch \in IdSchemes }

\* Crowded charts: up to MaxSignBodies bodies (Sun, Moon, Mercury, ...), each
\* at 12 degrees (Aries) or 50 degrees (Taurus).
MaxSignBodies == 7
CrowdLons == Deg({12, 50})
CrowdLists ==
    UNION { { [i \in 1..n |-> BodyPosition(PlanetOf("index", i), lons[i], ChartSpeed(i))]
              : lons \in [1..n -> CrowdLons] }
            : n \in 0..MaxSignBodies }

\* Angles given to the angle helpers: every 22.5 degrees over MaxTurns turns
\* either way, and the half degrees next to 0 and to one turn.
MaxTurns == 2
AngleInputs ==
    {k * 45 : k \in (-(16 * MaxTurns))..(16 * MaxTurns)}
    \cup {-721, -719, -1, 1, 719, 721}

\* Aspect records a caller holds when it asks for a strength: those
\* calc_aspect gives for two bodies under a table.
StrengthLons == Deg({0, 2, 5, 8, 60, 70, 120, 123, 130})
AspectsUnder(configs) ==
    {r.aspect[1] :
        r \in {x \in {astro_aspects_calc_aspect(configs, <<BodyPosition(0, 0, 0)>>,
                          <<BodyPosition(1, l, 3)>>, <<"aspect">>) : l \in StrengthLons}
                  : x.rc = ASTRO_OK}}

\* Charts of a caller whose calc_all runs while another thread changes the
\* orb table: up to MaxPlanets bodies, at most MaxRaces changes per call.
MaxRaces == 2
RaceLons == Deg({0, 84, 168, 180})
RaceLists ==
    UNION { { [i \in 1..n |-> BodyPosition(PlanetOf("index", i), lons[i], ChartSpeed(i))]
              : lons \in [1..n -> RaceLons] }
            : n \in 0..MaxPlanets }

\* Aspect sets in other orders than calc_all's.  Up to as many bodies as a
\* Grand Trine has (Sun, Moon, Mercury) stand a third of a circle apart or
\* at 100 degrees, out of aspect with the rest; the set is the whole set of
\* calc_all, begun at any of its aspects, forwards or backwards, with any
\* of its aspects recorded from its second body to its first.
GRAND_TRINE_PLANETS == 3
ShuffleLons == Deg({0, 100, 120, 240})
ShuffleLists ==
    UNION { { [i \in 1..n |-> BodyPosition(PlanetOf("index", i), lons[i], ChartSpeed(i))]
              : lons \in [1..n -> ShuffleLons] }
            : n \in 0..GRAND_TRINE_PLANETS }

Turned(asps, r, backwards) ==
    [k \in 1..Len(asps) |->
        IF backwards THEN asps[((((Len(asps) - k) + r) % Len(asps))) + 1]
        ELSE asps[(((k - 1) + r) % Len(asps)) + 1]]

\* The record calc_aspect gives for the same two bodies taken the other way.
Mirrored(configs, pos, a) ==
    astro_aspects_calc_aspect(configs, <<pos[a.planet2 + 1]>>, <<pos[a.planet1 + 1]>>,
                              <<"aspect">>).aspect[1]

MirroredAt(configs, pos, asps, mask) ==
    [k \in 1..Len(asps) |->
        IF k \in mask THEN Mirrored(configs, pos, asps[k]) ELSE asps[k]]

ShufflesOf(configs, pos, full) ==
    {MirroredAt(configs, pos, Turned(full, r, b), mask) :
        r \in 0..(IF Len(full) = 0 THEN 0 ELSE Len(full) - 1),
        b \in BOOLEAN, mask \in SUBSET (1..Len(full))}

ShuffledSetsOf(configs, pos) ==
    ShufflesOf(configs, pos, calc_all_i(configs, pos, (Len(pos) * Len(pos)) + 1, 0, <<>>))

\* What memory beyond a body list may hold where a name is read.
JunkNames == {-1, 0}

----------------------------------------------------------------------------
(* State machine *)

\* The caller is between two calls: no call's arguments or buffers are live.
Idle == ~fault /\ call.op = "idle"

NoAspectBuffer == aspects' = <<>> /\ num_aspects' = <<>>
NoPatternBuffer == patterns' = <<>> /\ num_patterns' = <<>>

Init ==
    /\ g_aspect_configs = BuiltinConfigs
    /\ call = [op |-> "idle"]
    /\ rc = ASTRO_OK
    /\ positions = <<>>
    /\ aspects = <<>>
    /\ num_aspects = <<>>
    /\ patterns = <<>>
    /\ num_patterns = <<>>
    /\ aspect = <<>>
    /\ fault = FALSE

\* astro_aspects_set_orb(aspect_type, orb); void, rc keeps 0.
SetOrbFrom(types, orbs) ==
    /\ Idle
    /\ \E t \in types, x \in orbs :
          /\ g_aspect_configs' = astro_aspects_set_orb(g_aspect_configs, t, x)
          /\ call' = [op |-> "set_orb", aspect_type |-> t, orb |-> x]
    /\ rc' = ASTRO_OK
    /\ positions' = <<>> /\ aspect' = <<>>
    /\ NoAspectBuffer /\ NoPatternBuffer
    /\ UNCHANGED fault

SetOrb == SetOrbFrom(OrbTypes, OrbValues)

SetChartOrb == SetOrbFrom(ChartOrbTypes, ChartOrbValues)

\* astro_aspects_reset_orbs(); void.  customised: the caller had changed an
\* orb since the last reset.
ResetOrbs ==
    /\ Idle
    /\ g_aspect_configs' = astro_aspects_reset_orbs(g_aspect_configs)
    /\ call' = [op |-> "reset_orbs", customised |-> g_aspect_configs # BuiltinConfigs]
    /\ rc' = ASTRO_OK
    /\ positions' = <<>> /\ aspect' = <<>>
    /\ NoAspectBuffer /\ NoPatternBuffer
    /\ UNCHANGED fault

\* astro_core_normalize_angle(angle); ret is the double it returns.
NormalizeAngle ==
    /\ Idle
    /\ \E angle \in AngleInputs :
          call' = [op |-> "normalize_angle", angle |-> angle,
                   ret |-> astro_core_normalize_angle(angle)]
    /\ rc' = ASTRO_OK
    /\ positions' = <<>> /\ aspect' = <<>>
    /\ NoAspectBuffer /\ NoPatternBuffer
    /\ UNCHANGED <<g_aspect_configs, fault>>

\* astro_core_angular_distance(lon1, lon2); ret is the double it returns.
AngularDistance ==
    /\ Idle
    /\ \E lon1 \in AngleInputs, lon2 \in AngleInputs :
          call' = [op |-> "angular_distance", lon1 |-> lon1, lon2 |-> lon2,
                   ret |-> astro_core_angular_distance(lon1, lon2)]
    /\ rc' = ASTRO_OK
    /\ positions' = <<>> /\ aspect' = <<>>
    /\ NoAspectBuffer /\ NoPatternBuffer
    /\ UNCHANGED <<g_aspect_configs, fault>>

\* astro_aspects_get_strength(aspect) on an aspect detected under the
\* built-in table or under the current one, or on NULL; ret is the double
\* it returns.
GetStrength ==
    /\ Idle
    /\ \E asp_ptr \in {NULL} \cup {<<a>> : a \in AspectsUnder(BuiltinConfigs)
                                            \cup AspectsUnder(g_aspect_configs)} :
          call' = [op |-> "get_strength", aspect |-> asp_ptr,
                   ret |-> astro_aspects_get_strength(g_aspect_configs, asp_ptr)]
    /\ rc' = ASTRO_OK
    /\ positions' = <<>> /\ aspect' = <<>>
    /\ NoAspectBuffer /\ NoPatternBuffer
    /\ UNCHANGED <<g_aspect_configs, fault>>

SetAnyOrb == SetOrbFrom(AnyOrbTypes, AnyOrbValues)

\* astro_aspects_get_orb(aspect_type); ret is the double it returns.
GetOrb ==
    /\ Idle
    /\ \E t \in AnyOrbTypes :
          call' = [op |-> "get_orb", aspect_type |-> t,
                   ret |-> astro_aspects_get_orb(g_aspect_configs, t)]
    /\ rc' = ASTRO_OK
    /\ positions' = <<>> /\ aspect' = <<>>
    /\ NoAspectBuffer /\ NoPatternBuffer
    /\ UNCHANGED <<g_aspect_configs, fault>>

\* What check_aspect leaves in an out-parameter: nothing when the pointer is
\* NULL or no entry matched (lines 96-101).
OutParam(ptr, found, value) == IF ptr = NULL \/ found = 0 THEN <<>> ELSE <<value>>

CheckAspectReturns(lon1, lon2, type_ptr, orb_ptr, r) ==
    /\ rc' = r.found
    /\ call' = [op |-> "check_aspect", lon1 |-> lon1, lon2 |-> lon2,
                aspect_type |-> OutParam(type_ptr, r.found,
                                         IF r.found = 1 THEN r.aspect_type ELSE 0),
                orb |-> OutParam(orb_ptr, r.found, IF r.found = 1 THEN r.orb ELSE 0)]

\* astro_aspects_check_aspect(lon1, lon2, aspect_type, orb); rc holds the
\* int it returns.
CheckAspect ==
    /\ Idle
    /\ \E lon1 \in Lon1Set, lon2 \in Lon2Set :
       \E type_ptr \in {NULL, <<"aspect_type">>}, orb_ptr \in {NULL, <<"orb">>} :
          CheckAspectReturns(lon1, lon2, type_ptr, orb_ptr,
              astro_aspects_check_aspect(g_aspect_configs, lon1, lon2))
    /\ positions' = <<>> /\ aspect' = <<>>
    /\ NoAspectBuffer /\ NoPatternBuffer
    /\ UNCHANGED <<g_aspect_configs, fault>>

\* astro_aspects_calc_aspect(pos1, pos2, aspect)
CalcAspectReturns(a, r) ==
    /\ call' = [op |-> "calc_aspect", pos1 |-> a[1], pos2 |-> a[2], out |-> a[3]]
    /\ rc' = r.rc
    /\ aspect' = r.aspect

CalcAspect ==
    /\ Idle
    /\ \E a \in CalcAspectArgs :
          CalcAspectReturns(a,
              astro_aspects_calc_aspect(g_aspect_configs, a[1], a[2], a[3]))
    /\ positions' = <<>>
    /\ NoAspectBuffer /\ NoPatternBuffer
    /\ UNCHANGED <<g_aspect_configs, fault>>

AspectSetReturns(r) ==
    /\ rc' = r.rc
    /\ aspects' = r.aspects
    /\ num_aspects' = r.num_aspects

\* astro_aspects_calc_all(positions, num_planets, aspects, max_aspects, num_aspects)
CalcAll ==
    /\ Idle
    /\ \E pos \in BodyLists, max_aspects \in 0..MaxAspects :
          /\ call' = [op |-> "calc_all", max_aspects |-> max_aspects]
          /\ positions' = pos
          /\ AspectSetReturns(
                 astro_aspects_calc_all(g_aspect_configs, <<"positions">>, pos,
                                        <<"aspects">>, max_aspects, <<"num">>))
    /\ aspect' = <<>>
    /\ NoPatternBuffer
    /\ UNCHANGED <<g_aspect_configs, fault>>

\* astro_aspects_calc_between_charts(natal, num_natal, transit, num_transit,
\*                                   aspects, max_aspects, num_aspects):
\* the caller's list is split into a natal part of num_natal bodies and a
\* transit part holding the rest.
NatalPart(pos, num_natal) == SubSeq(pos, 1, num_natal)
TransitPart(pos, num_natal) == SubSeq(pos, num_natal + 1, Len(pos))

CalcBetweenCharts ==
    /\ Idle
    /\ \E pos \in BodyLists, max_aspects \in 0..MaxAspects :
       \E num_natal \in 0..Len(pos) :
          /\ call' = [op |-> "calc_between_charts", num_natal |-> num_natal,
                      max_aspects |-> max_aspects]
          /\ positions' = pos
          /\ AspectSetReturns(
                 astro_aspects_calc_between_charts(g_aspect_configs,
                     <<"natal">>, NatalPart(pos, num_natal),
                     <<"transit">>, TransitPart(pos, num_natal),
                     <<"aspects">>, max_aspects, <<"num">>))
    /\ aspect' = <<>>
    /\ NoPatternBuffer
    /\ UNCHANGED <<g_aspect_configs, fault>>

\* The aspect sets the program builds for a body list: calc_all and
\* calc_between_charts under every capacity.
AspectSetsOf(configs, pos) ==
    {calc_all_i(configs, pos, m, 0, <<>>) : m \in 0..MaxAspects}
    \cup {calc_between_i(configs, NatalPart(pos, k), TransitPart(pos, k),
                         MaxAspects, 0, <<>>) : k \in 0..Len(pos)}

\* astro_aspects_find_patterns(positions, num_planets, aspects, num_aspects,
\*                             patterns, max_patterns, num_patterns)
\* on a body list and an aspect set built from it, as src/cosmic_weather.c:130-136
\* and src/astro_demo.c:114 call it.  A call that goes out of bounds either
\* runs on over the neighbouring memory, with or without the damage showing
\* in the records, or is killed there.
FindPatternsReturns(pos, max_patterns, r) ==
    \/ /\ rc' = r.rc
       /\ patterns' = r.patterns
       /\ num_patterns' = r.num_patterns
       /\ fault' = FALSE
    \/ /\ Overfull(r.patterns)
       /\ rc' = r.rc
       /\ patterns' = Clobbered(r.patterns)
       /\ num_patterns' = r.num_patterns
       /\ fault' = FALSE
    \/ /\ OutOfBounds(pos, r.patterns, max_patterns)
       /\ rc' = rc
       /\ NoPatternBuffer
       /\ fault' = TRUE

FindPatternsFrom(lists) ==
    /\ Idle
    /\ \E pos \in lists :
       \E asps \in AspectSetsOf(g_aspect_configs, pos) :
       \E max_patterns \in PatternCaps, junk \in JunkNames :
          /\ call' = [op |-> "find_patterns", max_patterns |-> max_patterns]
          /\ positions' = pos
          /\ aspects' = asps
          /\ num_aspects' = <<Len(asps)>>
          /\ FindPatternsReturns(pos, max_patterns,
                 astro_aspects_find_patterns(<<"positions">>, pos, <<"aspects">>,
                     asps, <<"patterns">>, max_patterns, <<"num">>, junk))
    /\ aspect' = <<>>
    /\ UNCHANGED g_aspect_configs

FindPatterns == FindPatternsFrom(BodyLists)

FindPatternsCrowded == FindPatternsFrom(CrowdLists)

\* find_patterns on an aspect set whose order is not calc_all's.
FindPatternsShuffled ==
    /\ Idle
    /\ \E pos \in ShuffleLists :
       \E asps \in ShuffledSetsOf(g_aspect_configs, pos) :
       \E max_patterns \in PatternCaps, junk \in JunkNames :
          /\ call' = [op |-> "find_patterns", max_patterns |-> max_patterns]
          /\ positions' = pos
          /\ aspects' = asps
          /\ num_aspects' = <<Len(asps)>>
          /\ FindPatternsReturns(pos, max_patterns,
                 astro_aspects_find_patterns(<<"positions">>, pos, <<"aspects">>,
                     asps, <<"patterns">>, max_patterns, <<"num">>, junk))
    /\ aspect' = <<>>
    /\ UNCHANGED g_aspect_configs

\* calc_all taken one pair evaluation at a time.  The call record holds the
\* loop counters i and j, the table as it was when the call began (start)
\* and how many times another thread changed the table since (races).
Running == ~fault /\ call.op = "calc_all_running"

PairLeft ==
    /\ call.i < Len(positions) /\ call.j < Len(positions)
    /\ Len(aspects) < call.max_aspects

\* Lines 154-158: the NULL tests pass, count = 0, i = 0, j = 1.
CalcAllBegin ==
    /\ Idle
    /\ \E pos \in RaceLists, max_aspects \in 0..MaxAspects :
          /\ call' = [op |-> "calc_all_running", max_aspects |-> max_aspects,
                      i |-> 0, j |-> 1, start |-> g_aspect_configs, races |-> 0]
          /\ positions' = pos
    /\ rc' = ASTRO_OK
    /\ aspects' = <<>> /\ num_aspects' = <<>>
    /\ aspect' = <<>>
    /\ NoPatternBuffer
    /\ UNCHANGED <<g_aspect_configs, fault>>

\* Lines 161-167: one pass of the inner loop body.
CalcAllPair ==
    /\ Running /\ PairLeft
    /\ aspects' = calc_all_pair(g_aspect_configs, positions, call.i, call.j, aspects)
    /\ call' = [call EXCEPT !.i = NextPair(call.i, call.j, Len(positions)).i,
                            !.j = NextPair(call.i, call.j, Len(positions)).j]
    /\ UNCHANGED <<g_aspect_configs, rc, positions, num_aspects, patterns,
                   num_patterns, aspect, fault>>

\* Lines 170-171: the loops are over; *num_aspects = count, return ASTRO_OK.
CalcAllEnd ==
    /\ Running /\ ~PairLeft
    /\ num_aspects' = <<Len(aspects)>>
    /\ rc' = ASTRO_OK
    /\ call' = [op |-> "calc_all", max_aspects |-> call.max_aspects,
                start |-> call.start, races |-> call.races]
    /\ UNCHANGED <<g_aspect_configs, positions, aspects, patterns,
                   num_patterns, aspect, fault>>

\* Another thread's astro_aspects_set_orb lands between two pair
\* evaluations of the running calc_all: nothing orders the two.
RacingSetOrb ==
    /\ Running /\ call.races < MaxRaces
    /\ \E t \in ChartOrbTypes, x \in ChartOrbValues :
          g_aspect_configs' = astro_aspects_set_orb(g_aspect_configs, t, x)
    /\ call' = [call EXCEPT !.races = @ + 1]
    /\ UNCHANGED <<rc, positions, aspects, num_aspects, patterns, num_patterns,
                   aspect, fault>>

\* Another thread's astro_aspects_reset_orbs, likewise.
RacingResetOrbs ==
    /\ Running /\ call.races < MaxRaces
    /\ g_aspect_configs' = astro_aspects_reset_orbs(g_aspect_configs)
    /\ call' = [call EXCEPT !.races = @ + 1]
    /\ UNCHANGED <<rc, positions, aspects, num_aspects, patterns, num_patterns,
                   aspect, fault>>

\* The caller is done with the results of its call; the arguments and
\* buffers, its locals, go out of scope.  The orb table stays.
CallerReturns ==
    /\ ~fault
    /\ call.op # "idle"
    /\ ~Running
    /\ call' = [op |-> "idle"]
    /\ rc' = ASTRO_OK
    /\ positions' = <<>> /\ aspect' = <<>>
    /\ NoAspectBuffer /\ NoPatternBuffer
    /\ UNCHANGED <<g_aspect_configs, fault>>

\* Single aspects under a changing orb table.
NextAspect == SetOrb \/ ResetOrbs \/ CheckAspect \/ CalcAspect \/ CallerReturns

SpecAspect == Init /\ [][NextAspect]_vars

\* The angle helpers.
NextAngles == NormalizeAngle \/ AngularDistance \/ CallerReturns

SpecAngles == Init /\ [][NextAngles]_vars

\* Strengths of aspects under a changing orb table.
NextStrength == SetOrb \/ ResetOrbs \/ GetStrength \/ CallerReturns

SpecStrength == Init /\ [][NextStrength]_vars

\* calc_all of one thread against orb changes of another.
NextRace ==
    \/ SetChartOrb \/ ResetOrbs \/ CalcAllBegin \/ CalcAllPair \/ CalcAllEnd
    \/ RacingSetOrb \/ RacingResetOrbs \/ CallerReturns

SpecRace == Init /\ [][NextRace]_vars

\* The patterns of aspect sets in any order, under the built-in orbs.
NextShuffled == FindPatternsShuffled \/ CallerReturns

SpecShuffled == Init /\ [][NextShuffled]_vars

\* The orb table alone.
NextOrbs == SetAnyOrb \/ SetChartOrb \/ ResetOrbs \/ GetOrb \/ CallerReturns

SpecOrbs == Init /\ [][NextOrbs]_vars

\* Crowded charts: the patterns of many bodies in few signs.
NextCrowd == SetChartOrb \/ ResetOrbs \/ FindPatternsCrowded \/ CallerReturns

SpecCrowd == Init /\ [][NextCrowd]_vars

\* Charts: the aspect sets of body lists, and single aspects.
Next ==
    \/ SetChartOrb \/ ResetOrbs \/ CalcAspect \/ CalcAll \/ CalcBetweenCharts
    \/ CallerReturns

Spec == Init /\ [][Next]_vars

\* Charts: the patterns of body lists and their aspect sets.
NextPatterns == SetChartOrb \/ ResetOrbs \/ FindPatterns \/ CallerReturns

SpecPatterns == Init /\ [][NextPatterns]_vars

----------------------------------------------------------------------------
(* Properties *)

AfterCall(op) == ~fault /\ call.op = op

\* Some aspect of the set has the given family and joins bodies x and y.
Joined(asps, family, x, y) ==
    \E k \in 1..Len(asps) :
        /\ asps[k].aspect_type = family
        /\ \/ (asps[k].planet1 = x /\ asps[k].planet2 = y)
           \/ (asps[k].planet1 = y /\ asps[k].planet2 = x)

PatternsOfType(t) == {k \in 1..Len(patterns) : patterns[k].pattern_type = t}

\* The aspect set calc_all builds from the list when nothing is dropped.
FullAspectSet(pos) ==
    calc_all_i(g_aspect_configs, pos, (Len(pos) * Len(pos)) + 1, 0, <<>>)

LonsOf(pos) == {pos[i].longitude : i \in 1..Len(pos)}
DistinctPlanets(pos) ==
    \A i, j \in 1..Len(pos) : i # j => pos[i].planet # pos[j].planet

\* A chart as the callers build it: bodies with distinct identifiers, and
\* the whole aspect set of calc_all.
WholeChart ==
    DistinctPlanets(positions) /\ aspects = FullAspectSet(positions)

\* C1: find_patterns stores at most max_patterns records and reports
\* num_patterns <= max_patterns; nothing is written past the caller's buffer.
C1_PatternsWithinCapacity ==
    AfterCall("find_patterns") =>
        /\ Len(patterns) <= call.max_patterns
        /\ num_patterns[1] <= call.max_patterns

\* C2: a Grand Trine (X, Y, Z) is reported only if the aspect set holds a
\* Trine for each of the pairs X-Y, X-Z and Y-Z.
C2_GrandTrineHasThreeTrines ==
    AfterCall("find_patterns") /\ WholeChart =>
        \A k \in PatternsOfType(ASTRO_PATTERN_GRAND_TRINE) :
            /\ Joined(aspects, ASTRO_ASPECT_TRINE, patterns[k].planets[1],
                      patterns[k].planets[2])
            /\ Joined(aspects, ASTRO_ASPECT_TRINE, patterns[k].planets[1],
                      patterns[k].planets[3])
            /\ Joined(aspects, ASTRO_ASPECT_TRINE, patterns[k].planets[2],
                      patterns[k].planets[3])

\* C3: a T-Square (A, B, C) is reported only if the aspect set holds an
\* Opposition A-B, a Square C-A and a second, different Square C-B.
C3_TSquareHasTwoSquares ==
    AfterCall("find_patterns") /\ WholeChart =>
        \A k \in PatternsOfType(ASTRO_PATTERN_T_SQUARE) :
            /\ Joined(aspects, ASTRO_ASPECT_OPPOSITION, patterns[k].planets[1],
                      patterns[k].planets[2])
            /\ \E m, n \in 1..Len(aspects) :
                  /\ m # n
                  /\ Joined(<<aspects[m]>>, ASTRO_ASPECT_SQUARE,
                            patterns[k].planets[3], patterns[k].planets[1])
                  /\ Joined(<<aspects[n]>>, ASTRO_ASPECT_SQUARE,
                            patterns[k].planets[3], patterns[k].planets[2])

\* The scenario of C4: three distinct bodies at 0, 120 and 240 degrees under
\* the built-in orbs, the aspect set being the whole output of calc_all and
\* the pattern buffer not filled.
GrandTrineScenario ==
    /\ AfterCall("find_patterns")
    /\ g_aspect_configs = BuiltinConfigs
    /\ Len(positions) = 3
    /\ LonsOf(positions) = Deg({0, 120, 240})
    /\ DistinctPlanets(positions)
    /\ aspects = FullAspectSet(positions)
    /\ num_patterns[1] < call.max_patterns

\* C4: in that scenario calc_all yields exactly 3 Trines and find_patterns
\* reports exactly one Grand Trine, holding all three bodies.
C4_OneGrandTrine ==
    GrandTrineScenario =>
        /\ Len(aspects) = 3
        /\ \A k \in 1..3 : IsTrine(aspects[k])
        /\ Cardinality(PatternsOfType(ASTRO_PATTERN_GRAND_TRINE)) = 1
        /\ \A k \in PatternsOfType(ASTRO_PATTERN_GRAND_TRINE) :
              {patterns[k].planets[m] : m \in 1..3}
                  = {positions[i].planet : i \in 1..3}

Min(a, b) == IF a <= b THEN a ELSE b

\* The aspect set calc_between_charts builds when nothing is dropped.
FullCrossSet(pos, num_natal) ==
    calc_between_i(g_aspect_configs, NatalPart(pos, num_natal),
                   TransitPart(pos, num_natal), (Len(pos) * Len(pos)) + 1, 0, <<>>)

\* C5: calc_all and calc_between_charts store at most max_aspects aspects,
\* report num_aspects <= max_aspects and return ASTRO_OK, also when matching
\* pairs were dropped.
C5_AspectsWithinCapacity ==
    AfterCall("calc_all") \/ AfterCall("calc_between_charts") =>
        /\ rc = ASTRO_OK
        /\ Len(aspects) <= call.max_aspects
        /\ num_aspects = <<Len(aspects)>>

\* C5 witness: a cross-chart call that filled its buffer and dropped a match.
C5_Witness ==
    /\ AfterCall("calc_between_charts")
    /\ rc = ASTRO_OK
    /\ call.max_aspects >= 1
    /\ Len(aspects) = call.max_aspects
    /\ Len(FullCrossSet(positions, call.num_natal)) > call.max_aspects

\* The index pairs (i, j), i < j, of a list of n bodies, 0-based as in the code.
PairsOf(n) == {p \in (0..(n - 1)) \X (0..(n - 1)) : p[1] < p[2]}
PairAspect(pos, p) ==
    astro_aspects_calc_aspect(g_aspect_configs, <<pos[p[1] + 1]>>, <<pos[p[2] + 1]>>,
                              <<"aspect">>)
Matching(pos) == {p \in PairsOf(Len(pos)) : PairAspect(pos, p).rc = ASTRO_OK}
Before(q, p) == q[1] < p[1] \/ (q[1] = p[1] /\ q[2] < p[2])
Rank(pos, p) == Cardinality({q \in Matching(pos) : Before(q, p)})

\* C6: the output of calc_all is the first min(max_aspects, M) elements of
\* the sequence of the aspects of the index pairs (i, j), i < j, taken in
\* ascending i then ascending j, M being the number of pairs with an aspect;
\* num_aspects is the number stored.
C6_CalcAllIsPrefixOfPairScan ==
    AfterCall("calc_all") =>
        /\ Len(aspects) = Min(call.max_aspects, Cardinality(Matching(positions)))
        /\ num_aspects = <<Len(aspects)>>
        /\ \A p \in Matching(positions) :
              Rank(positions, p) < Len(aspects) =>
                  aspects[Rank(positions, p) + 1] = PairAspect(positions, p).aspect[1]

\* C6 witness: a call that kept some matches, dropped others and skipped a
\* pair without aspect.
C6_Witness ==
    /\ AfterCall("calc_all")
    /\ Len(aspects) >= 1
    /\ Cardinality(Matching(positions)) > Len(aspects)
    /\ Matching(positions) # PairsOf(Len(positions))

\* C7: calc_between_charts finds an aspect for every cross pair whose
\* longitudes are within a family's orb (capacity permitting); one body at 0
\* degrees against one body at 180 degrees gives exactly one exact
\* Opposition with difference 0, whatever the two identifiers are.
C7_CrossProductComplete ==
    AfterCall("calc_between_charts") =>
        /\ Len(aspects) < call.max_aspects =>
              \A i \in (call.num_natal + 1)..Len(positions), j \in 1..call.num_natal :
                  astro_aspects_check_aspect(g_aspect_configs, positions[i].longitude,
                                             positions[j].longitude).found = 1
                  => \E k \in 1..Len(aspects) :
                        /\ aspects[k].planet1 = positions[i].planet
                        /\ aspects[k].planet2 = positions[j].planet
        /\ ( /\ Len(positions) = 2
             /\ call.num_natal = 1
             /\ call.max_aspects >= 1
             /\ LonsOf(positions) = Deg({0, 180}) )
           => /\ Len(aspects) = 1
              /\ aspects[1].aspect_type = ASTRO_ASPECT_OPPOSITION
              /\ aspects[1].difference = 0
              /\ aspects[1].is_exact = 1

\* C8: calc_aspect on two records with the same body identifier fails with
\* ASTRO_ERROR_INVALID_PLANET whatever their longitudes and speeds, so every
\* aspect of calc_aspect, calc_all and calc_between_charts joins two
\* different identifiers.
C8_NoSelfAspect ==
    /\ ( /\ AfterCall("calc_aspect")
         /\ call.pos1 # NULL /\ call.pos2 # NULL /\ call.out # NULL
         /\ call.pos1[1].planet = call.pos2[1].planet )
       => rc = ASTRO_ERROR_INVALID_PLANET /\ aspect = <<>>
    /\ aspect # <<>> => aspect[1].planet1 # aspect[1].planet2
    /\ ~fault => \A k \in 1..Len(aspects) : aspects[k].planet1 # aspects[k].planet2

\* C8 witness: the same identifier at two longitudes a Trine apart is refused.
C8_Witness ==
    /\ AfterCall("calc_aspect")
    /\ call.pos1 # NULL /\ call.pos2 # NULL /\ call.out # NULL
    /\ call.pos1[1].planet = call.pos2[1].planet
    /\ astro_core_angular_distance(call.pos1[1].longitude, call.pos2[1].longitude)
           = 120 * U
    /\ call.pos1[1].longitude_speed # call.pos2[1].longitude_speed
    /\ rc = ASTRO_ERROR_INVALID_PLANET

ConfigOf(aspect_type) == g_aspect_configs[get_aspect_config(g_aspect_configs, aspect_type)]

\* C9: under any orb table an aspect of calc_aspect has difference <= the
\* default orb of its family at detection time, and is_exact = 1 exactly
\* when difference <= the tight orb of its family.
C9_WithinOrbAndExactness ==
    AfterCall("calc_aspect") /\ rc = ASTRO_OK =>
        /\ aspect[1].difference <= ConfigOf(aspect[1].aspect_type).default_orb
        /\ (aspect[1].is_exact = 1) <=>
              (aspect[1].difference <= ConfigOf(aspect[1].aspect_type).tight_orb)
        /\ aspect[1].is_exact \in {0, 1}

\* C9 witness: after set_orb, an aspect exactly on its tight orb, exact.
C9_Witness ==
    /\ AfterCall("calc_aspect") /\ rc = ASTRO_OK
    /\ g_aspect_configs # BuiltinConfigs
    /\ ConfigOf(aspect[1].aspect_type) # BuiltinConfigs[
           get_aspect_config(BuiltinConfigs, aspect[1].aspect_type)]
    /\ aspect[1].difference = ConfigOf(aspect[1].aspect_type).tight_orb
    /\ aspect[1].is_exact = 1

SpeedGap == Abs(call.pos1[1].longitude_speed - call.pos2[1].longitude_speed)

\* C10: for two distinct bodies forming an aspect, is_applying is 1 or 0 when
\* |speed1 - speed2| >= 0.01 and -1 when |speed1 - speed2| < 0.01.
C10_ApplyingTotality ==
    AfterCall("calc_aspect") /\ rc = ASTRO_OK =>
        /\ SpeedGap >= STATIONARY_THRESHOLD => aspect[1].is_applying \in {0, 1}
        /\ SpeedGap < STATIONARY_THRESHOLD => aspect[1].is_applying = -1

\* C10 witness: a speed difference exactly on the threshold, classified.
C10_Witness ==
    /\ AfterCall("calc_aspect") /\ rc = ASTRO_OK
    /\ SpeedGap = STATIONARY_THRESHOLD
    /\ aspect[1].is_applying \in {0, 1}

\* The separation of the two bodies of the call, 1000 times finer than U,
\* after each has moved along its speed for dt days (dt = 0 or 1 step; one
\* step moves a body by its speed in the fine unit, far less than 1 / U
\* degree).
SeparationAfter(dt) ==
    LET lon1 == (call.pos1[1].longitude * 1000) + (dt * call.pos1[1].longitude_speed)
        lon2 == (call.pos2[1].longitude * 1000) + (dt * call.pos2[1].longitude_speed)
        diff == Abs(lon2 - lon1)
    IN  IF diff > 180 * U * 1000 THEN (360 * U * 1000) - diff ELSE diff

\* Distance of that separation from the target angle of the aspect found.
OffTarget(dt) == Abs(SeparationAfter(dt) - (aspect[1].aspect_type * U * 1000))

\* C11: for two distinct bodies with |speed1 - speed2| >= 0.01 in aspect but
\* not exactly on the target angle, is_applying = 1 exactly when a small step
\* forward in time brings the separation closer to the target angle, and
\* is_applying = 0 exactly when it takes the separation further away.
C11_ApplyingMeansClosing ==
    ( /\ AfterCall("calc_aspect") /\ rc = ASTRO_OK
      /\ SpeedGap >= STATIONARY_THRESHOLD
      /\ aspect[1].difference # 0 )
    => /\ (aspect[1].is_applying = 1) <=> (OffTarget(1) < OffTarget(0))
       /\ (aspect[1].is_applying = 0) <=> (OffTarget(1) > OffTarget(0))

\* The families in the order of the table.
FamilyOrder ==
    << ASTRO_ASPECT_CONJUNCTION, ASTRO_ASPECT_OPPOSITION, ASTRO_ASPECT_TRINE,
       ASTRO_ASPECT_SQUARE, ASTRO_ASPECT_SEXTILE, ASTRO_ASPECT_QUINCUNX,
       ASTRO_ASPECT_SEMISEXTILE, ASTRO_ASPECT_SEMISQUARE,
       ASTRO_ASPECT_SESQUIQUADRATE, ASTRO_ASPECT_QUINTILE, ASTRO_ASPECT_BIQUINTILE >>

\* |angular distance - target| of the k-th family for the longitudes of the
\* check_aspect call, and the families within their current orb.
OffFamily(k) ==
    Abs(astro_core_angular_distance(call.lon1, call.lon2) - (FamilyOrder[k] * U))
WithinOrb ==
    {k \in 1..Len(FamilyOrder) :
        OffFamily(k) <= astro_aspects_get_orb(g_aspect_configs, FamilyOrder[k])}
FirstWithinOrb == CHOOSE k \in WithinOrb : \A m \in WithinOrb : k <= m

\* C12: check_aspect returns the first family in table order whose
\* |angular distance - target| <= its current orb, with that difference,
\* even when a later family is nearer; it returns 0 exactly when no family
\* is within its orb.
C12_FirstFamilyInTableOrder ==
    AfterCall("check_aspect") =>
        /\ (rc = 0) <=> (WithinOrb = {})
        /\ rc \in {0, 1}
        /\ rc = 0 => call.aspect_type = <<>> /\ call.orb = <<>>
        /\ rc = 1 =>
              /\ call.aspect_type \in {<<>>, <<FamilyOrder[FirstWithinOrb]>>}
              /\ call.orb \in {<<>>, <<OffFamily(FirstWithinOrb)>>}

\* C12 witness: a match reported although a later family is nearer.
C12_Witness ==
    /\ AfterCall("check_aspect") /\ rc = 1
    /\ call.aspect_type # <<>> /\ call.orb # <<>>
    /\ \E k \in WithinOrb : k > FirstWithinOrb /\ OffFamily(k) < call.orb[1]

Families == {FamilyOrder[k] : k \in 1..Len(FamilyOrder)}

\* C13: after set_orb(F, x) on a family of the table get_orb(F) returns x,
\* and goes on returning the same value across every later operation other
\* than set_orb(F, .) and reset_orbs.
C13_GetOrbReturnsWhatWasSet ==
    [][ /\ (call'.op = "set_orb" /\ call'.aspect_type \in Families)
           => astro_aspects_get_orb(g_aspect_configs', call'.aspect_type) = call'.orb
        /\ \A F \in Families :
              ~(\/ call'.op = "reset_orbs"
                \/ (call'.op = "set_orb" /\ call'.aspect_type = F))
              => astro_aspects_get_orb(g_aspect_configs', F)
                     = astro_aspects_get_orb(g_aspect_configs, F)
        /\ call'.op = "get_orb"
           => call'.ret = astro_aspects_get_orb(g_aspect_configs, call'.aspect_type)
      ]_vars

\* C13 witness: a later get_orb returns the 5 degrees set, not the built-in orb.
C13_Witness ==
    /\ AfterCall("get_orb")
    /\ call.aspect_type \in Families
    /\ call.ret = 5 * U
    /\ call.ret # astro_aspects_get_orb(BuiltinConfigs, call.aspect_type)

\* The table of the claim, in half degrees: default orbs 8,8,8,8,6,3,3,3,3,2,2
\* and tight orbs 3,3,3,3,2,1,1,1,1,0.5,0.5, the first five families major.
ClaimedTable ==
    [k \in 1..11 |->
        [aspect_type |-> FamilyOrder[k],
         default_orb |-> <<16, 16, 16, 16, 12, 6, 6, 6, 6, 4, 4>>[k] * (U \div 2),
         tight_orb |-> <<6, 6, 6, 6, 4, 2, 2, 2, 2, 1, 1>>[k] * (U \div 2),
         is_major |-> IF k <= 5 THEN 1 ELSE 0]]

\* C14: after any sequence of set_orb calls reset_orbs restores the built-in
\* table: the 11 families in table order with their default orbs, tight
\* orbs and major flags.
C14_ResetRestoresBuiltinTable ==
    AfterCall("reset_orbs") => g_aspect_configs = ClaimedTable

\* C14 witness: a reset of a table that had been changed.
C14_Witness ==
    AfterCall("reset_orbs") /\ call.customised /\ g_aspect_configs = ClaimedTable

\* C15: set_orb(F, x) changes only the default orb of family F: the other
\* default orbs, every tight orb, target angle and major flag and the table
\* order stay; for an identifier outside the table set_orb changes nothing
\* and get_orb returns 0.
C15_SetOrbFrame ==
    [][ /\ call'.op = "set_orb" =>
              /\ DOMAIN g_aspect_configs' = DOMAIN g_aspect_configs
              /\ \A i \in DOMAIN g_aspect_configs :
                    /\ g_aspect_configs'[i].aspect_type = g_aspect_configs[i].aspect_type
                    /\ g_aspect_configs'[i].tight_orb = g_aspect_configs[i].tight_orb
                    /\ g_aspect_configs'[i].is_major = g_aspect_configs[i].is_major
                    /\ g_aspect_configs[i].aspect_type # call'.aspect_type
                       => g_aspect_configs'[i].default_orb = g_aspect_configs[i].default_orb
              /\ call'.aspect_type \notin Families =>
                    /\ g_aspect_configs' = g_aspect_configs
                    /\ astro_aspects_get_orb(g_aspect_configs', call'.aspect_type) = 0
        /\ (call'.op = "get_orb" /\ call'.aspect_type \notin Families) => call'.ret = 0
      ]_vars

\* C15 witness: a set_orb on one family of a table in which another family
\* keeps an orb set earlier.
C15_Witness ==
    /\ AfterCall("set_orb")
    /\ call.aspect_type \in Families
    /\ astro_aspects_get_orb(g_aspect_configs, call.aspect_type) = call.orb
    /\ call.orb # astro_aspects_get_orb(BuiltinConfigs, call.aspect_type)
    /\ \E F \in Families \ {call.aspect_type} :
          astro_aspects_get_orb(g_aspect_configs, F)
              # astro_aspects_get_orb(BuiltinConfigs, F)

\* The identifiers of the bodies of the list in a sign, in list order.
RECURSIVE BodiesInSign(_, _)
BodiesInSign(pos, sign) ==
    IF pos = <<>> THEN <<>>
    ELSE LET rest == BodiesInSign(SubSeq(pos, 1, Len(pos) - 1), sign)
         IN  IF pos[Len(pos)].sign = sign
             THEN Append(rest, pos[Len(pos)].planet)
             ELSE rest

\* The Stellium records reported for a sign.
StelliumsOf(sign) ==
    {k \in 1..Len(patterns) :
        /\ patterns[k].pattern_type = ASTRO_PATTERN_STELLIUM
        /\ patterns[k].description[2] = sign}

\* C16: capacity permitting, find_patterns reports exactly one Stellium for
\* each sign holding 3 or more bodies of the list, with all bodies of the
\* sign as its participants, and none for a sign holding fewer than 3,
\* whatever the aspect set.
C16_OneStelliumPerCrowdedSign ==
    AfterCall("find_patterns") /\ Len(patterns) < call.max_patterns =>
        \A sign \in 0..11 :
            IF Len(BodiesInSign(positions, sign)) >= 3
            THEN /\ Cardinality(StelliumsOf(sign)) = 1
                 /\ \A k \in StelliumsOf(sign) :
                       /\ patterns[k].num_planets = Len(BodiesInSign(positions, sign))
                       /\ patterns[k].planets = BodiesInSign(positions, sign)
            ELSE StelliumsOf(sign) = {}

\* C17: every pattern has a participant count within the record's
\* capacity, 3 for Grand Trine and T-Square and 3 to 6 for Stellium, and no
\* participant is stored past the 6 slots of the record.
C17_ParticipantsWithinSlots ==
    AfterCall("find_patterns") =>
        \A k \in 1..Len(patterns) :
            /\ Len(patterns[k].planets) <= PATTERN_PLANET_SLOTS
            /\ IF patterns[k].pattern_type = ASTRO_PATTERN_STELLIUM
               THEN patterns[k].num_planets \in 3..PATTERN_PLANET_SLOTS
               ELSE patterns[k].num_planets = 3 /\ Len(patterns[k].planets) = 3

\* The call to calc_aspect had a missing argument or two records of one body.
InvalidInput ==
    \/ call.pos1 = NULL \/ call.pos2 = NULL \/ call.out = NULL
    \/ call.pos1[1].planet = call.pos2[1].planet

\* The separation of the two bodies of the call: the shorter arc between
\* their longitudes.
Separation ==
    Min(Abs(call.pos2[1].longitude - call.pos1[1].longitude),
        (360 * U) - Abs(call.pos2[1].longitude - call.pos1[1].longitude))

\* Some family has the separation within its current orb.
SomeFamilyWithinOrb ==
    \E k \in 1..Len(FamilyOrder) :
        Abs(Separation - (FamilyOrder[k] * U))
            <= astro_aspects_get_orb(g_aspect_configs, FamilyOrder[k])

\* C18: calc_aspect has three distinguishable outcomes: success, invalid
\* input (a NULL argument or twice the same body) and no match; distinct
\* bodies within no family's orb always give no match, and an invalid input
\* never gives no match or success.
C18_OutcomesDistinguishable ==
    AfterCall("calc_aspect") =>
        /\ InvalidInput <=> rc \in {ASTRO_ERROR_NULL_POINTER, ASTRO_ERROR_INVALID_PLANET}
        /\ (~InvalidInput /\ ~SomeFamilyWithinOrb) <=> rc = ASTRO_ERROR_CALCULATION
        /\ (~InvalidInput /\ SomeFamilyWithinOrb) <=> rc = ASTRO_OK
        /\ (rc = ASTRO_OK) <=> (aspect # <<>>)
        /\ Cardinality({ASTRO_OK, ASTRO_ERROR_CALCULATION, ASTRO_ERROR_NULL_POINTER,
                        ASTRO_ERROR_INVALID_PLANET}) = 4

\* C18 witness: two distinct bodies 100 degrees apart give no match.
C18_Witness ==
    /\ AfterCall("calc_aspect")
    /\ ~InvalidInput
    /\ Separation = 100 * U
    /\ rc = ASTRO_ERROR_CALCULATION

\* C19: for longitudes in [0, 360) the orb field of an aspect is the raw
\* separation of the two bodies, within 0..180 degrees; difference >= 0 and
\* difference = |orb - target angle of the family|.
C19_OrbAndDifference ==
    AfterCall("calc_aspect") /\ rc = ASTRO_OK =>
        /\ aspect[1].orb = Separation
        /\ aspect[1].orb >= 0 /\ aspect[1].orb <= 180 * U
        /\ aspect[1].difference >= 0
        /\ aspect[1].difference = Abs(aspect[1].orb - (aspect[1].aspect_type * U))

\* C19 witness: an aspect across the 0/360 wrap, off its target angle.
C19_Witness ==
    /\ AfterCall("calc_aspect") /\ rc = ASTRO_OK
    /\ Abs(call.pos2[1].longitude - call.pos1[1].longitude) > 180 * U
    /\ aspect[1].difference > 0

\* C20: under the built-in table two distinct bodies with any speeds give:
\* at equal longitudes a Conjunction with difference 0, exact; 122 degrees
\* apart a Trine with difference 2, exact; 125 degrees apart a Trine with
\* difference 5, not exact.
C20_BuiltinExamples ==
    ( /\ AfterCall("calc_aspect") /\ ~InvalidInput
      /\ g_aspect_configs = BuiltinConfigs )
    => /\ Separation = 0 =>
              /\ rc = ASTRO_OK
              /\ aspect[1].aspect_type = ASTRO_ASPECT_CONJUNCTION
              /\ aspect[1].difference = 0
              /\ aspect[1].is_exact = 1
       /\ Separation = 122 * U =>
              /\ rc = ASTRO_OK
              /\ aspect[1].aspect_type = ASTRO_ASPECT_TRINE
              /\ aspect[1].difference = 2 * U
              /\ aspect[1].is_exact = 1
       /\ Separation = 125 * U =>
              /\ rc = ASTRO_OK
              /\ aspect[1].aspect_type = ASTRO_ASPECT_TRINE
              /\ aspect[1].difference = 5 * U
              /\ aspect[1].is_exact = 0

\* C20 witness: the 125 degree Trine between bodies of different speeds.
C20_Witness ==
    /\ AfterCall("calc_aspect") /\ ~InvalidInput
    /\ g_aspect_configs = BuiltinConfigs
    /\ Separation = 125 * U
    /\ call.pos1[1].longitude_speed # call.pos2[1].longitude_speed
    /\ aspect[1].is_exact = 0

\* C21: for any two longitudes, in [0, 360) or not, angular_distance(a, b) =
\* angular_distance(b, a) and the result lies in [0, 180].
C21_AngularDistanceTotal ==
    AfterCall("angular_distance") =>
        /\ call.ret = astro_core_angular_distance(call.lon2, call.lon1)
        /\ call.ret >= 0
        /\ call.ret <= 180 * U

OrbNow == astro_aspects_get_orb(g_aspect_configs, call.aspect[1].aspect_type)

\* C23: for any aspect record and any orb table reachable through set_orb,
\* an orb of 0 or below and an orb changed after detection included, the
\* strength is max(0, 1 - difference / default orb) and lies in [0, 1].
C23_StrengthInUnitInterval ==
    AfterCall("get_strength") /\ call.aspect # NULL =>
        /\ call.ret.kind = "quot"
        /\ call.ret.num >= 0
        /\ call.ret.num <= call.ret.den
        /\ OrbNow # 0 =>
              \* ret = max(0, 1 - difference / orb), cross-multiplied
              IF (OrbNow - call.aspect[1].difference) * OrbNow >= 0
              THEN call.ret.num * OrbNow
                       = (OrbNow - call.aspect[1].difference) * call.ret.den
              ELSE call.ret.num = 0

\* What calc_all gives for the caller's list and capacity when the table is
\* configs from its first pair evaluation to its last.
CalcAllUnder(configs) == calc_all_i(configs, positions, call.max_aspects, 0, <<>>)

\* C24: a calc_all during which no set_orb or reset_orbs ran gives the
\* result determined by the body list, the capacity and the table alone;
\* with an orb change between two pair evaluations (the witness) the result
\* can be the one of neither the table before nor the table after.
C24_UndisturbedCalcAllIsAFunction ==
    AfterCall("calc_all") /\ call.races = 0 =>
        /\ g_aspect_configs = call.start
        /\ aspects = CalcAllUnder(g_aspect_configs)
        /\ num_aspects = <<Len(aspects)>>

\* One set_orb landed mid-call: an aspect accepted under the old orb stands
\* next to a pair of the same separation rejected under the new one.
C24_Witness ==
    /\ AfterCall("calc_all") /\ call.races = 1
    /\ aspects # CalcAllUnder(call.start)
    /\ aspects # CalcAllUnder(g_aspect_configs)
    /\ Len(aspects) > 0
    /\ Len(aspects) < Len(CalcAllUnder(call.start))

\* C25: a call of find_patterns leaves the orb table as it was and writes
\* nothing but the caller's output buffer and count: every record it stores
\* lies within the max_patterns records of the buffer, and every participant
\* within the record's planets array.
C25_OnlyOutputsWritten ==
    [][call'.op = "find_patterns" /\ ~fault' =>
          /\ g_aspect_configs' = g_aspect_configs
          /\ Len(patterns') <= call'.max_patterns
          /\ \A k \in 1..Len(patterns') :
                Len(patterns'[k].planets) <= PATTERN_PLANET_SLOTS]_vars

PlanetsOf(pos) == {pos[i].planet : i \in 1..Len(pos)}
ParticipantsOf(pat) == {pat.planets[m] : m \in 1..Len(pat.planets)}

\* C26: whenever the aspect set holds an Opposition A-B and Squares C-A and
\* C-B, and the buffer has room left, find_patterns reports a T-Square with
\* participants A, B and C, whichever body of a Square is its planet1 and
\* wherever C stands in the list.
C26_TSquareComplete ==
    AfterCall("find_patterns") /\ DistinctPlanets(positions)
        /\ Len(patterns) < call.max_patterns =>
        \A A, B, C \in PlanetsOf(positions) :
            /\ Joined(aspects, ASTRO_ASPECT_OPPOSITION, A, B)
            /\ Joined(aspects, ASTRO_ASPECT_SQUARE, C, A)
            /\ Joined(aspects, ASTRO_ASPECT_SQUARE, C, B)
            => \E k \in PatternsOfType(ASTRO_PATTERN_T_SQUARE) :
                   ParticipantsOf(patterns[k]) = {A, B, C}

\* C27: whenever the aspect set holds a Trine for each pair of three
\* distinct bodies X, Y, Z and the buffer has room left, find_patterns
\* reports a Grand Trine whose participants are X, Y and Z, whatever the
\* order of the aspects and of the two bodies inside each aspect.
C27_GrandTrineComplete ==
    AfterCall("find_patterns") /\ DistinctPlanets(positions)
        /\ Len(patterns) < call.max_patterns =>
        \A X, Y, Z \in PlanetsOf(positions) :
            /\ X # Y /\ X # Z /\ Y # Z
            /\ Joined(aspects, ASTRO_ASPECT_TRINE, X, Y)
            /\ Joined(aspects, ASTRO_ASPECT_TRINE, X, Z)
            /\ Joined(aspects, ASTRO_ASPECT_TRINE, Y, Z)
            => \E k \in PatternsOfType(ASTRO_PATTERN_GRAND_TRINE) :
                   ParticipantsOf(patterns[k]) = {X, Y, Z}

\* Three Trines recorded round the triangle, each body the planet1 of one
\* of them, which calc_all never gives; the Grand Trine is reported.
C27_Witness ==
    /\ AfterCall("find_patterns")
    /\ Len(aspects) = 3
    /\ \A k \in 1..3 : aspects[k].aspect_type = ASTRO_ASPECT_TRINE
    /\ {aspects[k].planet1 : k \in 1..3} = {0, 1, 2}
    /\ {aspects[k].planet2 : k \in 1..3} = {0, 1, 2}
    /\ Len(patterns) < call.max_patterns
    /\ \E k \in PatternsOfType(ASTRO_PATTERN_GRAND_TRINE) :
           ParticipantsOf(patterns[k]) = {0, 1, 2}

\* What calc_aspect gives for the two bodies of the call taken the other
\* way round, under the same table.
SwappedCall ==
    astro_aspects_calc_aspect(g_aspect_configs, call.pos2, call.pos1, call.out)

\* C28: calc_aspect(A, B) and calc_aspect(B, A) succeed or fail together
\* and, on success, give the same family, raw separation, difference,
\* is_exact and applying/separating/stationary classification.
C28_BodyOrderIrrelevant ==
    AfterCall("calc_aspect") =>
        /\ SwappedCall.rc = rc
        /\ rc = ASTRO_OK =>
              /\ SwappedCall.aspect[1].aspect_type = aspect[1].aspect_type
              /\ SwappedCall.aspect[1].orb = aspect[1].orb
              /\ SwappedCall.aspect[1].difference = aspect[1].difference
              /\ SwappedCall.aspect[1].is_exact = aspect[1].is_exact
              /\ SwappedCall.aspect[1].is_applying = aspect[1].is_applying

\* The name of the body of the list whose identifier is p.
NameOfPlanet(pos, p) == pos[CHOOSE i \in 1..Len(pos) : pos[i].planet = p].name

\* C29: on a body list and the aspect set calc_all built from it,
\* find_patterns reads the list only at indices below num_planets, and a
\* Grand Trine or T-Square description names the pattern's participants,
\* also when identifiers differ from list indices.
C29_NamesOfParticipants ==
    AfterCall("find_patterns") /\ WholeChart =>
        \A k \in PatternsOfType(ASTRO_PATTERN_GRAND_TRINE)
                 \cup PatternsOfType(ASTRO_PATTERN_T_SQUARE) :
           \A m \in 1..3 :
              \* the name was read from positions[planets[m]]
              /\ patterns[k].planets[m] < Len(positions)
              /\ patterns[k].description[m + 1]
                     = NameOfPlanet(positions, patterns[k].planets[m])

\* The acceptance intervals [target - orb, target + orb] of a table are
\* pairwise disjoint.
IntervalsDisjoint(configs) ==
    \A k, m \in 1..g_num_aspect_configs :
        k # m =>
            Abs(configs[k].aspect_type - configs[m].aspect_type) * U
                > configs[k].default_orb + configs[m].default_orb

\* No family's orb is wider than the built-in one.
NoOrbWidened ==
    \A F \in Families :
        astro_aspects_get_orb(g_aspect_configs, F)
            <= astro_aspects_get_orb(BuiltinConfigs, F)

\* C30: the acceptance intervals of the built-in table are pairwise
\* disjoint; while no orb has been widened at most one family matches any
\* angular distance, and what check_aspect reports is the nearest match.
C30_BuiltinIntervalsDisjoint ==
    /\ IntervalsDisjoint(BuiltinConfigs)
    /\ g_aspect_configs = BuiltinConfigs => IntervalsDisjoint(g_aspect_configs)
    /\ AfterCall("check_aspect") /\ NoOrbWidened =>
          /\ Cardinality(WithinOrb) <= 1
          /\ rc = 1 =>
                /\ \A k \in WithinOrb : OffFamily(FirstWithinOrb) <= OffFamily(k)
                /\ call.aspect_type \in {<<>>, <<FamilyOrder[FirstWithinOrb]>>}

\* C30 witness: 146 degrees is the last separation of the Biquintile
\* (144 + 2) and one degree short of the Quincunx (150 - 3); it is
\* reported as a Biquintile with difference 2.
C30_Witness ==
    /\ AfterCall("check_aspect") /\ g_aspect_configs = BuiltinConfigs
    /\ astro_core_angular_distance(call.lon1, call.lon2) = 146 * U
    /\ rc = 1
    /\ call.aspect_type = <<ASTRO_ASPECT_BIQUINTILE>>
    /\ call.orb = <<2 * U>>
    /\ WithinOrb = {11}

====
